---- MODULE Spec2Model ----
(***************************************************************************)
(* Model of the hypercore log state engine: the controller of core.rs     *)
(* (new_with_key_pair, append_batch), the storage accessors of            *)
(* storage/mod.rs (get_node, data_offset, get_data) and the oplog header   *)
(* of oplog/mod.rs.  The Merkle tree, the block store, the oplog body and  *)
(* the slice flushing of storage are not part of the source tree; they are *)
(* modelled from the written specification (sections 4.1 - 4.3, 6).        *)
(***************************************************************************)
EXTENDS Integers, Sequences, FiniteSets, TLC

\* ------------------------------------------------------------------ bounds
\* Number of append_batch calls in one behaviour.
MaxCalls == 2
\* Number of blocks handed to append_batch in one behaviour, over all calls.
MaxBlocks == 3
\* Number of crashes, closes and backend I/O errors in one behaviour.
MaxFaults == 1

\* Block payloads the caller may append.
Blocks == {<<1>>, <<2, 3>>}

RECURSIVE SeqsUpTo(_, _)
SeqsUpTo(S, n) ==
    IF n = 0 THEN {<<>>}
    ELSE LET shorter == SeqsUpTo(S, n - 1)
         IN  shorter \cup {Append(s, x) : s \in {q \in shorter : Len(q) = n - 1}, x \in S}

Batches == SeqsUpTo(Blocks, MaxBlocks)

\* ------------------------------------------------------------ flat tree
\* Depth of a flat-tree index: leaves (even) have depth 0.
RECURSIVE Depth(_)
Depth(i) == IF i % 2 = 0 THEN 0 ELSE 1 + Depth((i - 1) \div 2)

RECURSIVE Pow2(_)
Pow2(d) == IF d = 0 THEN 1 ELSE 2 * Pow2(d - 1)

\* Position of a flat-tree index among the nodes of its depth.
Offset(i) == i \div Pow2(Depth(i) + 1)

FlatIndex(d, o) == (1 + 2 * o) * Pow2(d) - 1

Parent(i) == FlatIndex(Depth(i) + 1, Offset(i) \div 2)

\* Largest power of two that is <= n (n >= 1).
RECURSIVE Floor2(_)
Floor2(n) == IF n = 1 THEN 1 ELSE 2 * Floor2(n \div 2)

\* Roots of the full subtrees covering leaves [first, first + n), left to right.
RECURSIVE RootCover(_, _)
RootCover(first, n) ==
    IF n = 0 THEN <<>>
    ELSE LET p == Floor2(n)
         IN  <<2 * first + p - 1>> \o RootCover(first + p, n - p)

\* flat::full_roots(index): the roots of the full subtrees left of an even index.
FullRoots(index) == RootCover(0, index \div 2)

\* tree_index: the flat-tree index of a block.
tree_index(index) == 2 * index

\* ------------------------------------------------------------ keys, nodes
PublicKey == "pk"
SecretKey == "sk"
NoKey == "none"

NoSignature == [key |-> NoKey, msg |-> <<>>]

RECURSIVE Concat(_)
Concat(ss) == IF ss = <<>> THEN <<>> ELSE Head(ss) \o Concat(Tail(ss))

RECURSIVE SumLengths(_)
SumLengths(ns) == IF ns = <<>> THEN 0 ELSE Head(ns).length + SumLengths(Tail(ns))

\* Hashes are modelled as the (injective) sequence of what is hashed, led by the
\* domain-separation tag: 0 leaf, 1 parent, 2 root-signing input.
LeafHash(b) == <<0, Len(b)>> \o b
ParentHash(l, r) == <<1, l.length + r.length>> \o l.hash \o r.hash

LeafNode(i, b) == [index |-> 2 * i, length |-> Len(b), hash |-> LeafHash(b)]
ParentNode(l, r) ==
    [index |-> Parent(l.index), length |-> l.length + r.length, hash |-> ParentHash(l, r)]

Signable(length, fork, roots) ==
    <<2, length, fork>> \o Concat([k \in 1..Len(roots) |-> roots[k].hash])

Sign(secret, msg) == [key |-> secret, msg |-> msg]

\* ed25519 verification: the signature was made over msg with the secret half of pk.
Verify(public, msg, sig) == public = PublicKey /\ sig.key = SecretKey /\ sig.msg = msg

\* ------------------------------------------------------------ merkle tree
EmptyTree ==
    [fork |-> 0, length |-> 0, byte_length |-> 0, roots |-> <<>>, signature |-> NoSignature]

\* MerkleTree::changeset: a working copy seeded with the committed state.
Changeset(t) ==
    [ancestors |-> t.length, fork |-> t.fork, length |-> t.length,
     byte_length |-> t.byte_length, roots |-> t.roots, nodes |-> <<>>,
     signature |-> NoSignature]

\* Fold the rightmost roots while they are siblings; nodes collects the parents.
RECURSIVE FoldRoots(_, _)
FoldRoots(roots, nodes) ==
    LET n == Len(roots)
    IN  IF n >= 2 /\ Parent(roots[n - 1].index) = Parent(roots[n].index)
        THEN LET p == ParentNode(roots[n - 1], roots[n])
             IN  FoldRoots(Append(SubSeq(roots, 1, n - 2), p), Append(nodes, p))
        ELSE [roots |-> roots, nodes |-> nodes]

\* Changeset::append: one leaf, folded into the roots.
ChangesetAppend(cs, b) ==
    LET leaf == LeafNode(cs.length, b)
        f    == FoldRoots(Append(cs.roots, leaf), Append(cs.nodes, leaf))
    IN  [cs EXCEPT !.roots = f.roots, !.nodes = f.nodes,
                   !.length = cs.length + 1, !.byte_length = cs.byte_length + Len(b)]

RECURSIVE ChangesetAppendAll(_, _)
ChangesetAppendAll(cs, batch) ==
    IF batch = <<>> THEN cs
    ELSE ChangesetAppendAll(ChangesetAppend(cs, Head(batch)), Tail(batch))

\* Changeset::hash_and_sign
HashAndSign(cs, secret) ==
    [cs EXCEPT !.signature = Sign(secret, Signable(cs.length, cs.fork, cs.roots))]

\* The tree state a changeset stands for.
ChangesetState(cs) ==
    [fork |-> cs.fork, length |-> cs.length, byte_length |-> cs.byte_length,
     roots |-> cs.roots, signature |-> cs.signature]

\* ------------------------------------------------------------ segments
\* A storage segment is a sequence of cells addressed from offset 0; a write past
\* the end fills the gap with zeroes, as the random-access backends do.
ZeroCell == [k |-> "zero", v |-> 0]

WriteAt(seg, off, cells, zero) ==
    IF cells = <<>> THEN seg
    ELSE LET end == IF off + Len(cells) > Len(seg) THEN off + Len(cells) ELSE Len(seg)
         IN  [i \in 1..end |->
                 IF i > off /\ i <= off + Len(cells) THEN cells[i - off]
                 ELSE IF i <= Len(seg) THEN seg[i] ELSE zero]

\* Storage::flush_slice: one write of slice.data at slice.offset.
FlushSlice(seg, slice, zero) == WriteAt(seg, slice.offset, slice.data, zero)

\* A write that stopped after its first k cells (crash or backend error).
TornSlice(slice, k) == [offset |-> slice.offset, data |-> SubSeq(slice.data, 1, k)]

NoSlice == [offset |-> 0, data |-> <<>>]

\* BlockStore::append_batch: the concatenated payloads at the given byte offset.
BlockStoreAppendBatch(batch, batch_length, byte_length) ==
    [offset |-> byte_length, data |-> Concat(batch)]

\* ------------------------------------------------------------ oplog header
\* Variant of new_from_keys that leaves the secret key out of the signer.
new_from_keys_public(public_key, secret_key) ==
    [types |-> [tree |-> "blake2b", bitfield |-> "raw", signer |-> "ed25519"],
     tree |-> [fork |-> 0, length |-> 0],
     signer |-> [public_key |-> public_key, secret_key |-> NoKey],
     hints |-> [reorgs |-> <<>>],
     contiguous_length |-> 0]

\* Header::new_from_keys
new_from_keys(public_key, secret_key) ==
    [types |-> [tree |-> "blake2b", bitfield |-> "raw", signer |-> "ed25519"],
     tree |-> [fork |-> 0, length |-> 0],
     signer |-> [public_key |-> public_key, secret_key |-> secret_key],
     hints |-> [reorgs |-> <<>>],
     contiguous_length |-> 0]

EmptySlot == [valid |-> FALSE, sequence |-> 0, header |-> new_from_keys(NoKey, NoKey)]

HeaderSlot(sequence, header) == [valid |-> TRUE, sequence |-> sequence, header |-> header]

\* ------------------------------------------------------------ oplog entries
\* The entry Oplog::append_changeset builds from a changeset (no bitfield update).
EntryOf(cs) ==
    [fork |-> cs.fork, ancestors |-> cs.ancestors, length |-> cs.length,
     signature |-> cs.signature, nodes |-> cs.nodes]

U64(n) == [k |-> "u64", v |-> n]

\* Payload of an entry frame, one cell per encoded field.
EncodeEntry(e) ==
    <<U64(e.fork), U64(e.ancestors), U64(e.length), [k |-> "sig", v |-> e.signature],
      U64(Len(e.nodes))>> \o [i \in 1..Len(e.nodes) |-> [k |-> "node", v |-> e.nodes[i]]]

DecodeEntry(p) ==
    [fork |-> p[1].v, ancestors |-> p[2].v, length |-> p[3].v, signature |-> p[4].v,
     nodes |-> [i \in 1..p[5].v |-> p[5 + i].v]]

\* header_bits of an entry that carries a tree upgrade only.
TreeUpgradeBits == 1

\* crc32c of a payload, modelled as an ideal checksum.
Crc(payload) == payload

\* {length with header_bits, crc32c, payload}
Frame(e) ==
    LET p == EncodeEntry(e)
    IN  <<[k |-> "len", v |-> <<Len(p), TreeUpgradeBits>>], [k |-> "crc", v |-> Crc(p)]>> \o p

\* Variant of FrameValidAt that accepts a frame only when nothing follows it.
FrameValidAtEnd(body, at) ==
    /\ at + 1 <= Len(body)
    /\ body[at].k = "len"
    /\ body[at + 1].k = "crc"
    /\ at + 1 + body[at].v[1] = Len(body)
    /\ body[at + 1].v = Crc(SubSeq(body, at + 2, at + 1 + body[at].v[1]))

\* The frame that starts at cell at (1-based) is complete and its CRC verifies.
FrameValidAt(body, at) ==
    /\ at + 1 <= Len(body)
    /\ body[at].k = "len"
    /\ body[at + 1].k = "crc"
    /\ at + 1 + body[at].v[1] <= Len(body)
    /\ body[at + 1].v = Crc(SubSeq(body, at + 2, at + 1 + body[at].v[1]))

\* Replay: the entries of the valid frames from cell at on, ending at the first
\* frame that fails.
RECURSIVE ReplayEntries(_, _)
ReplayEntries(body, at) ==
    IF FrameValidAt(body, at)
    THEN <<DecodeEntry(SubSeq(body, at + 2, at + 1 + body[at].v[1]))>>
             \o ReplayEntries(body, at + 2 + body[at].v[1])
    ELSE <<>>

RECURSIVE ReplayEnd(_, _)
ReplayEnd(body, at) ==
    IF FrameValidAt(body, at) THEN ReplayEnd(body, at + 2 + body[at].v[1]) ELSE at - 1

\* The header with every replayed tree upgrade applied, in order.
RECURSIVE ApplyEntries(_, _)
ApplyEntries(header, entries) ==
    IF entries = <<>> THEN header
    ELSE ApplyEntries(
             [header EXCEPT !.tree = [fork |-> Head(entries).fork,
                                      length |-> Head(entries).length]],
             Tail(entries))

\* The slot that wins on open: the valid one with the highest sequence.
WinnerSlot(seg) ==
    IF seg.A.valid /\ (~seg.B.valid \/ seg.A.sequence >= seg.B.sequence) THEN "A"
    ELSE IF seg.B.valid THEN "B" ELSE "none"

\* Oplog::open: header image, in-memory oplog and the oplog segment after the
\* slices to flush have been written.
OplogOpen(key_pair, seg) ==
    IF WinnerSlot(seg) = "none"
    THEN LET header == new_from_keys(key_pair.public, key_pair.secret)
         IN  [header |-> header,
              oplog |-> [header |-> header, entries_length |-> 0],
              seg |-> [A |-> HeaderSlot(0, header), B |-> seg.B, body |-> <<>>]]
    ELSE LET slot   == IF WinnerSlot(seg) = "A" THEN seg.A ELSE seg.B
             header == ApplyEntries(slot.header, ReplayEntries(seg.body, 1))
             end    == ReplayEnd(seg.body, 1)
         IN  [header |-> header,
              oplog |-> [header |-> header, entries_length |-> end],
              seg |-> [seg EXCEPT !.body = SubSeq(seg.body, 1, end)]]

\* Oplog::append_changeset: the frame of the entry at the end of the body; the
\* in-memory header image takes the entry's tree upgrade.
AppendChangeset(oplog, cs) ==
    [oplog |-> [header |-> [oplog.header EXCEPT !.tree = [fork |-> cs.fork, length |-> cs.length]],
                entries_length |-> oplog.entries_length + Len(Frame(EntryOf(cs)))],
     slice |-> [offset |-> oplog.entries_length, data |-> Frame(EntryOf(cs))]]

\* ------------------------------------------------------------ tree segment
\* The tree segment holds one record per flat index (after the segment header);
\* it is modelled as the function from the written indices to their records.
NoNode == [ok |-> FALSE, node |-> [index |-> 0, length |-> 0, hash |-> <<>>]]

\* Storage::get_node: the record at HEADER_OFFSET + 40 * index, or a read error.
get_node(tseg, index) ==
    IF index \in DOMAIN tseg
    THEN [ok |-> TRUE,
          node |-> [index |-> index, length |-> tseg[index].length, hash |-> tseg[index].hash]]
    ELSE NoNode

\* find_node: the first cached node with the index.
find_node(nodes, index) ==
    IF \E i \in 1..Len(nodes) : nodes[i].index = index
    THEN [ok |-> TRUE,
          node |-> nodes[CHOOSE i \in 1..Len(nodes) :
                             /\ nodes[i].index = index
                             /\ \A j \in 1..(i - 1) : nodes[j].index # index]]
    ELSE NoNode

NoRange == [ok |-> FALSE, start |-> 0, end |-> 0]

\* Storage::data_offset: the byte range of a block, from the lengths of the full
\* roots left of it and of its own leaf.
data_offset(tseg, index, cached_nodes) ==
    LET roots       == FullRoots(tree_index(index))
        pending     == Len(roots)
        block_index == tree_index(index)
        read        == [i \in 1..Len(roots) |-> get_node(tseg, roots[i])]
        leaf        == IF find_node(cached_nodes, block_index).ok
                       THEN find_node(cached_nodes, block_index)
                       ELSE get_node(tseg, block_index)
        offset      == SumLengths([i \in 1..Len(roots) |-> read[i].node])
    IN  IF pending = 0
        THEN IF ~leaf.ok THEN NoRange
             ELSE [ok |-> TRUE, start |-> 0, end |-> 0 + leaf.node.length]
        ELSE IF (\E i \in 1..Len(roots) : ~read[i].ok) \/ ~leaf.ok THEN NoRange
             ELSE [ok |-> TRUE, start |-> offset, end |-> offset + leaf.node.length]

NoData == [ok |-> FALSE, data |-> <<>>]

\* Storage::get_data: the bytes of the range data_offset computes.
get_data(tseg, dseg, index) ==
    LET range == data_offset(tseg, index, <<>>)
    IN  IF ~range.ok \/ range.end > Len(dseg) THEN NoData
        ELSE [ok |-> TRUE, data |-> SubSeq(dseg, range.start + 1, range.end)]

\* MerkleTree::get_slice_instructions_to_read and MerkleTree::open: the roots of
\* header_tree.length blocks, read from the tree segment.
MerkleTreeOpen(header_tree, tseg) ==
    LET idx   == FullRoots(2 * header_tree.length)
        read  == [i \in 1..Len(idx) |-> get_node(tseg, idx[i])]
        roots == [i \in 1..Len(idx) |-> read[i].node]
    IN  IF \E i \in 1..Len(idx) : ~read[i].ok THEN [ok |-> FALSE, tree |-> EmptyTree]
        ELSE [ok |-> TRUE,
              tree |-> [fork |-> header_tree.fork, length |-> header_tree.length,
                        byte_length |-> SumLengths(roots), roots |-> roots,
                        signature |-> NoSignature]]

\* Hypercore::new_with_key_pair as a function of what is on disk.
OpenOutcome(kp, oseg, tseg) ==
    LET o == OplogOpen(kp, oseg)
        t == MerkleTreeOpen(o.header.tree, tseg)
    IN  [ok |-> t.ok, oplog |-> o.oplog, seg |-> o.seg, tree |-> t.tree]

\* ------------------------------------------------------------ state
VARIABLES
    key_pair,   \* Hypercore.key_pair: [public, secret]
    tree,       \* Hypercore.tree: the in-memory committed tree state
    oplog,      \* Hypercore.oplog: in-memory header image and end of the body
    pc,         \* "closed", "idle", or the suspension point of append_batch
    inflight,   \* locals of the running append_batch: batch, changeset, slice
    outcome,    \* what the last call returned
    dataSeg,    \* the data segment on disk
    oplogSeg,   \* the oplog segment on disk: header slots A, B and the body
    treeSeg,    \* the tree segment on disk
    calls,      \* number of append_batch calls made
    blocks,     \* number of blocks handed to append_batch so far
    faults,     \* number of crashes, closes and backend errors so far
    call,       \* history: the state at the start of the last append_batch
    commits,    \* history: the state of every changeset handed to the oplog
    acked,      \* history: the state of every changeset whose call returned Ok
    log,        \* history: the blocks of the calls that returned Ok, in order
    hdr,        \* history of the header slots: rewrites, damage, snapshots
    cvalue,     \* the value handed to preencode and encode
    cstate,     \* compact_encoding State: start and end
    cbuffer,    \* the buffer encode writes and decode reads
    cresult,    \* what decode returned
    storage     \* Storage: the bytes of its tree, bitfield and oplog stores

vars == <<key_pair, tree, oplog, pc, inflight, outcome, dataSeg, oplogSeg, treeSeg,
          calls, blocks, faults, call, commits, acked, log, hdr,
          cvalue, cstate, cbuffer, cresult, storage>>

codec == <<cvalue, cstate, cbuffer, cresult>>

disk == <<dataSeg, oplogSeg, treeSeg>>
history == <<call, commits, acked, log>>

NoInflight == [batch |-> <<>>, changeset |-> Changeset(EmptyTree), slice |-> NoSlice]
NoOutcome == [kind |-> "none", length |-> 0, byte_length |-> 0]
Failure(kind) == [kind |-> kind, length |-> 0, byte_length |-> 0]
NoCall == [batch |-> <<>>, tree |-> EmptyTree, dataSeg |-> <<>>, body |-> <<>>, secret |-> NoKey]

\* No header rewrite and no damage so far; slot A is the slot of the initial write.
NoHdr ==
    [rewrites |-> 0, last |-> "A", phase |-> "none", at |-> 0, damage |-> "none",
     damage_at |-> 0,
     winner |-> "A", kept |-> EmptySlot, prev |-> EmptySlot,
     image |-> new_from_keys(NoKey, NoKey), expect |-> new_from_keys(NoKey, NoKey)]

\* State::new and an empty buffer: nothing has been encoded or decoded.
NoState == [start |-> 0, end |-> 0]
CodecUnused ==
    /\ cvalue = <<>>
    /\ cstate = NoState
    /\ cbuffer = <<>>
    /\ cresult = <<>>

\* No Storage instance exists.
\* The result of a get_node that failed, or of none.
NoRead == [ok |-> FALSE, index |-> 0]

NoStorage ==
    [tree |-> <<>>, bitfield |-> <<>>, oplog |-> <<>>, opened |-> FALSE, overwrite |-> FALSE,
     written |-> <<>>, read |-> NoRead]
StorageUnused == storage = NoStorage

KeyPairs == {[public |-> PublicKey, secret |-> s] : s \in {SecretKey, NoKey}}

\* The state after Storage::new on empty segments and new_with_key_pair.
Init ==
    /\ key_pair \in KeyPairs
    /\ tree = EmptyTree
    /\ oplog = [header |-> new_from_keys(key_pair.public, key_pair.secret), entries_length |-> 0]
    /\ pc = "idle"
    /\ inflight = NoInflight
    /\ outcome = NoOutcome
    /\ dataSeg = <<>>
    /\ oplogSeg = [A |-> HeaderSlot(0, new_from_keys(key_pair.public, key_pair.secret)),
                   B |-> EmptySlot, body |-> <<>>]
    /\ treeSeg = <<>>
    /\ calls = 0
    /\ blocks = 0
    /\ faults = 0
    /\ call = NoCall
    /\ commits = <<>>
    /\ acked = <<>>
    /\ log = <<>>
    /\ hdr = NoHdr
    /\ CodecUnused
    /\ StorageUnused

\* AppendOutcome of append_batch (core.rs returns the two fields as zero).
AppendOutcome(cs) == [kind |-> "ok", length |-> 0, byte_length |-> 0]

\* Variant of TreeOfAppend: the changeset is applied to the tree as it is built.
TreeOfAppendEarly(t, cs) == ChangesetState(cs)

\* The in-memory tree while and after a changeset is built from it: the changeset
\* is a separate value and append_batch never hands it back to the tree.
TreeOfAppend(t, cs) == t

\* Variant of AppendBatchCall without the secret-key guard.
AppendBatchCallUnguarded(batch) ==
    /\ pc = "idle"
    /\ calls < MaxCalls
    /\ blocks + Len(batch) <= MaxBlocks
    /\ calls' = calls + 1
    /\ blocks' = blocks + Len(batch)
    /\ call' = [batch |-> batch, tree |-> tree, dataSeg |-> dataSeg,
                body |-> oplogSeg.body, secret |-> key_pair.secret]
    /\ LET changeset == HashAndSign(ChangesetAppendAll(Changeset(tree), batch),
                                    key_pair.secret)
           slice == BlockStoreAppendBatch(batch, Len(Concat(batch)), tree.byte_length)
       IN  /\ inflight' = [batch |-> batch, changeset |-> changeset, slice |-> slice]
           /\ tree' = TreeOfAppend(tree, changeset)
           /\ pc' = "data_flush"
           /\ outcome' = NoOutcome
           /\ UNCHANGED <<codec, storage, hdr, key_pair, oplog, disk, faults, commits, acked, log>>

\* Variant of AppendBatchCall that signs the changeset before the blocks of the
\* batch are appended to it.
AppendBatchCallSignFirst(batch) ==
    /\ pc = "idle"
    /\ calls < MaxCalls
    /\ blocks + Len(batch) <= MaxBlocks
    /\ calls' = calls + 1
    /\ blocks' = blocks + Len(batch)
    /\ call' = [batch |-> batch, tree |-> tree, dataSeg |-> dataSeg,
                body |-> oplogSeg.body, secret |-> key_pair.secret]
    /\ IF key_pair.secret = NoKey
       THEN /\ outcome' = Failure("NoSecret")
            /\ UNCHANGED <<codec, storage, hdr, key_pair, tree, oplog, pc, inflight, disk, faults,
                           commits, acked, log>>
       ELSE LET changeset == ChangesetAppendAll(HashAndSign(Changeset(tree), key_pair.secret),
                                                batch)
                slice == BlockStoreAppendBatch(batch, Len(Concat(batch)), tree.byte_length)
            IN  /\ inflight' = [batch |-> batch, changeset |-> changeset, slice |-> slice]
                /\ tree' = TreeOfAppend(tree, changeset)
                /\ pc' = "data_flush"
                /\ outcome' = NoOutcome
                /\ UNCHANGED <<codec, storage, hdr, key_pair, oplog, disk, faults, commits, acked, log>>

\* append_batch up to its first suspension point: the secret-key guard, the
\* changeset, the signature, and the data slice handed to flush_slice.
AppendBatchCall(batch) ==
    /\ pc = "idle"
    /\ calls < MaxCalls
    /\ blocks + Len(batch) <= MaxBlocks
    /\ calls' = calls + 1
    /\ blocks' = blocks + Len(batch)
    /\ call' = [batch |-> batch, tree |-> tree, dataSeg |-> dataSeg,
                body |-> oplogSeg.body, secret |-> key_pair.secret]
    /\ IF key_pair.secret = NoKey
       THEN /\ outcome' = Failure("NoSecret")
            /\ UNCHANGED <<codec, storage, hdr, key_pair, tree, oplog, pc, inflight, disk, faults,
                           commits, acked, log>>
       ELSE LET changeset == HashAndSign(ChangesetAppendAll(Changeset(tree), batch),
                                         key_pair.secret)
                batch_length == Len(Concat(batch))
                slice == BlockStoreAppendBatch(batch, batch_length, tree.byte_length)
            IN  /\ inflight' = [batch |-> batch, changeset |-> changeset, slice |-> slice]
                /\ tree' = TreeOfAppend(tree, changeset)
                /\ pc' = "data_flush"
                /\ outcome' = NoOutcome
                /\ UNCHANGED <<codec, storage, hdr, key_pair, oplog, disk, faults, commits, acked, log>>

\* Variant of DataFlushOk: the oplog entry is handed to the oplog flush before the
\* data slice has been written.
DataFlushOkReordered ==
    /\ pc = "data_flush"
    /\ dataSeg' = dataSeg
    /\ LET a == AppendChangeset(oplog, inflight.changeset)
       IN  /\ oplog' = a.oplog
           /\ inflight' = [inflight EXCEPT !.slice = a.slice]
    /\ commits' = Append(commits, ChangesetState(inflight.changeset))
    /\ pc' = "oplog_flush"
    /\ UNCHANGED <<codec, storage, hdr, key_pair, tree, outcome, oplogSeg, treeSeg, calls, blocks, faults, call, acked, log>>

\* flush_slice(Store::Data) returned Ok: append_changeset, then flush_slices of
\* the oplog is in flight.
DataFlushOk ==
    /\ pc = "data_flush"
    /\ dataSeg' = FlushSlice(dataSeg, inflight.slice, 0)
    /\ LET a == AppendChangeset(oplog, inflight.changeset)
       IN  /\ oplog' = a.oplog
           /\ inflight' = [inflight EXCEPT !.slice = a.slice]
    /\ commits' = Append(commits, ChangesetState(inflight.changeset))
    /\ pc' = "oplog_flush"
    /\ UNCHANGED <<codec, storage, hdr, key_pair, tree, outcome, oplogSeg, treeSeg, calls, blocks, faults, call, acked, log>>

\* flush_slice(Store::Data) returned an error after writing k bytes: `?` returns it.
DataFlushErr ==
    /\ pc = "data_flush"
    /\ faults < MaxFaults
    /\ faults' = faults + 1
    /\ \E k \in 0..Len(inflight.slice.data) :
           dataSeg' = FlushSlice(dataSeg, TornSlice(inflight.slice, k), 0)
    /\ pc' = "idle"
    /\ inflight' = NoInflight
    /\ outcome' = Failure("BackendIo")
    /\ UNCHANGED <<codec, storage, hdr, key_pair, tree, oplog, oplogSeg, treeSeg, calls, blocks, history>>

\* flush_slices(Store::Oplog) returned Ok: append_batch returns its outcome.
OplogFlushOk ==
    /\ pc = "oplog_flush"
    /\ oplogSeg' = [oplogSeg EXCEPT !.body = FlushSlice(oplogSeg.body, inflight.slice, ZeroCell)]
    /\ pc' = "idle"
    /\ outcome' = AppendOutcome(inflight.changeset)
    /\ acked' = Append(acked, ChangesetState(inflight.changeset))
    /\ log' = log \o inflight.batch
    /\ inflight' = NoInflight
    /\ UNCHANGED <<codec, storage, hdr, key_pair, tree, oplog, dataSeg, treeSeg, calls, blocks, faults, call, commits>>

\* flush_slices(Store::Oplog) returned an error after writing k cells.
OplogFlushErr ==
    /\ pc = "oplog_flush"
    /\ faults < MaxFaults
    /\ faults' = faults + 1
    /\ \E k \in 0..Len(inflight.slice.data) :
           oplogSeg' = [oplogSeg EXCEPT
                           !.body = FlushSlice(oplogSeg.body, TornSlice(inflight.slice, k), ZeroCell)]
    /\ pc' = "idle"
    /\ inflight' = NoInflight
    /\ outcome' = Failure("BackendIo")
    /\ UNCHANGED <<codec, storage, hdr, key_pair, tree, oplog, dataSeg, treeSeg, calls, blocks, history>>

\* The process stops (crash, cancellation or close): memory is lost, a write in
\* flight has reached the disk up to some cell k.
Crash ==
    /\ pc \in {"idle", "data_flush", "oplog_flush"}
    /\ faults < MaxFaults
    /\ faults' = faults + 1
    /\ \E k \in 0..Len(inflight.slice.data) :
           /\ dataSeg' = IF pc = "data_flush"
                         THEN FlushSlice(dataSeg, TornSlice(inflight.slice, k), 0)
                         ELSE dataSeg
           /\ oplogSeg' = IF pc = "oplog_flush"
                          THEN [oplogSeg EXCEPT
                                   !.body = FlushSlice(oplogSeg.body,
                                                       TornSlice(inflight.slice, k), ZeroCell)]
                          ELSE oplogSeg
    /\ pc' = "closed"
    /\ tree' = EmptyTree
    /\ oplog' = [header |-> new_from_keys(NoKey, NoKey), entries_length |-> 0]
    /\ inflight' = NoInflight
    /\ outcome' = NoOutcome
    /\ UNCHANGED <<codec, storage, hdr, key_pair, treeSeg, calls, blocks, history>>

\* Hypercore::new_with_key_pair on the surviving storage.
Open(kp) ==
    /\ pc = "closed"
    /\ LET o == OpenOutcome(kp, oplogSeg, treeSeg)
       IN  /\ oplogSeg' = o.seg
           /\ IF o.ok
              THEN /\ key_pair' = kp
                   /\ oplog' = o.oplog
                   /\ tree' = o.tree
                   /\ pc' = "idle"
                   /\ outcome' = NoOutcome
              ELSE /\ outcome' = Failure("CorruptTree")
                   /\ UNCHANGED <<codec, storage, hdr, key_pair, oplog, tree, pc>>
    /\ UNCHANGED <<codec, storage, hdr, inflight, dataSeg, treeSeg, calls, blocks, faults, history>>

Next ==
    \/ \E batch \in Batches : AppendBatchCall(batch)
    \/ DataFlushOk
    \/ DataFlushErr
    \/ OplogFlushOk
    \/ OplogFlushErr
    \/ Crash
    \/ \E kp \in KeyPairs : Open(kp)

Spec == Init /\ [][Next]_vars

\* The entries a reader finds when it replays the oplog body on disk.
DiskEntries == ReplayEntries(oplogSeg.body, 1)

\* ------------------------------------------------------------ header slots
MaxRewrites == 3

\* The number of cells the torn-tail scenario removes from the end of the oplog.
TailCut == 3

\* The batches appended between header rewrites.
HeaderBatches == {<<<<1>>>>, <<<<1>>, <<2, 3>>>>}

SlotNames == {"A", "B"}

\* A slot that was written and does not verify (torn or damaged), as opposed to
\* one that was never written.
Corrupt(slot) == ~slot.valid /\ slot # EmptySlot

\* Variant of LoserOf that targets the winning slot.
LoserOfInPlace(seg) == IF WinnerSlot(seg) = "B" THEN "B" ELSE "A"

\* The slot a rewrite targets: the one that did not win.
LoserOf(seg) == IF WinnerSlot(seg) = "A" THEN "B" ELSE "A"

\* Variant of NextSequence that advances by two.
NextSequenceByTwo(seg) ==
    IF WinnerSlot(seg) = "none" THEN 0 ELSE seg[WinnerSlot(seg)].sequence + 2

\* The sequence of a rewritten slot: one past the winner's.
NextSequence(seg) ==
    IF WinnerSlot(seg) = "none" THEN 0 ELSE seg[WinnerSlot(seg)].sequence + 1

\* Oplog::flush_header: the slot it writes, holding the in-memory header image.
FlushHeaderSlot(image, seg) == HeaderSlot(NextSequence(seg), image)

\* Variant of TornHeaderSlot whose partial record passes the CRC with the tree
\* state not yet written.
TornHeaderSlotAccepted(slot) == [slot EXCEPT !.header.tree = [fork |-> 0, length |-> 0]]

\* A header slot whose write stopped part way: its CRC does not verify.
TornHeaderSlot(slot) == [slot EXCEPT !.valid = FALSE]

\* The in-memory state of a process that is not running.
NoOplog == [header |-> new_from_keys(NoKey, NoKey), entries_length |-> 0]

\* The state after Storage::new on empty segments, before the first open, or the
\* state after the first open.
HeaderInit ==
    \/ Init
    \/ /\ key_pair \in KeyPairs
       /\ tree = EmptyTree
       /\ oplog = NoOplog
       /\ pc = "closed"
       /\ inflight = NoInflight
       /\ outcome = NoOutcome
       /\ dataSeg = <<>>
       /\ oplogSeg = [A |-> EmptySlot, B |-> EmptySlot, body |-> <<>>]
       /\ treeSeg = <<>>
       /\ calls = 0
       /\ blocks = 0
       /\ faults = 0
       /\ call = NoCall
       /\ commits = <<>>
       /\ acked = <<>>
       /\ log = <<>>
       /\ hdr = NoHdr
    /\ CodecUnused
    /\ StorageUnused

\* flush_header is called: the write of the loser slot is in flight.
FlushHeaderCall ==
    /\ pc = "idle"
    /\ hdr.rewrites < MaxRewrites
    /\ pc' = "header_flush"
    /\ hdr' = [hdr EXCEPT !.rewrites = @ + 1, !.phase = "rewriting",
                          !.winner = WinnerSlot(oplogSeg),
                          !.kept = oplogSeg[WinnerSlot(oplogSeg)],
                          !.image = oplog.header]
    /\ UNCHANGED <<codec, storage, key_pair, tree, oplog, inflight, outcome, disk, calls, blocks, faults,
                   history>>

\* The write of the loser slot is durable: the slot is the winner from now on and
\* the body is empty.
FlushHeaderOk ==
    /\ pc = "header_flush"
    /\ oplogSeg' = [oplogSeg EXCEPT ![LoserOf(oplogSeg)] = FlushHeaderSlot(oplog.header, oplogSeg),
                                    !.body = <<>>]
    /\ oplog' = [oplog EXCEPT !.entries_length = 0]
    /\ pc' = "idle"
    /\ hdr' = [hdr EXCEPT !.last = LoserOf(oplogSeg), !.phase = "none",
                          !.prev = oplogSeg[LoserOf(oplogSeg)]]
    /\ UNCHANGED <<codec, storage, key_pair, tree, inflight, outcome, dataSeg, treeSeg, calls, blocks, faults,
                   history>>

\* The process stops during the header rewrite: the slot is either torn or
\* complete with the body not yet emptied.
CrashInHeaderFlush ==
    /\ pc = "header_flush"
    /\ faults < MaxFaults
    /\ faults' = faults + 1
    /\ \E done \in BOOLEAN :
           /\ oplogSeg' = [oplogSeg EXCEPT ![LoserOf(oplogSeg)] =
                               IF done THEN FlushHeaderSlot(oplog.header, oplogSeg)
                               ELSE TornHeaderSlot(FlushHeaderSlot(oplog.header, oplogSeg))]
           /\ hdr' = [hdr EXCEPT !.phase = "crashed", !.at = faults + 1,
                                 !.last = IF done THEN LoserOf(oplogSeg) ELSE @,
                                 !.prev = IF done THEN oplogSeg[LoserOf(oplogSeg)] ELSE @]
    /\ pc' = "closed"
    /\ tree' = EmptyTree
    /\ oplog' = NoOplog
    /\ inflight' = NoInflight
    /\ outcome' = NoOutcome
    /\ UNCHANGED <<codec, storage, key_pair, dataSeg, treeSeg, calls, blocks, history>>

\* Damage at rest: the written slots of S stop verifying.
CorruptSlots(S) ==
    /\ pc = "closed"
    /\ hdr.damage = "none"
    /\ S # {}
    /\ \A n \in S : oplogSeg[n].valid
    /\ oplogSeg' = [n \in DOMAIN oplogSeg |->
                       IF n \in S THEN TornHeaderSlot(oplogSeg[n]) ELSE oplogSeg[n]]
    /\ hdr' = [hdr EXCEPT !.damage = IF WinnerSlot(oplogSeg') = "none" THEN "headers_lost"
                                    ELSE "corrupt",
                          !.damage_at = faults]
    /\ UNCHANGED <<codec, storage, key_pair, tree, oplog, pc, inflight, outcome, dataSeg, treeSeg, calls,
                   blocks, faults, history>>

\* The cells of the body at which the length prefix of a frame was written.
FrameStarts(body) == {i \in 1..Len(body) : body[i].k = "len"}

\* The greatest element of a non-empty set of numbers.
Last(S) == CHOOSE i \in S : \A j \in S : j <= i

\* The header with the tree state written in the frame that starts at cell at.
HeaderAt(header, body, at) ==
    [header EXCEPT !.tree = [fork |-> body[at + 2].v, length |-> body[at + 4].v]]

\* The header state as of the frame written last before the given cell, or the
\* given header when the body holds no frame before it.
HeaderBefore(header, body, at) ==
    LET before == {i \in FrameStarts(body) : i < at}
    IN  IF before = {} THEN header ELSE HeaderAt(header, body, Last(before))

\* Damage at rest: the oplog, whose body ends with the last cell of its last
\* frame, loses its last TailCut cells.
TruncateTail ==
    /\ pc = "closed"
    /\ hdr.damage = "none"
    /\ WinnerSlot(oplogSeg) # "none"
    /\ FrameStarts(oplogSeg.body) # {}
    /\ LET body == oplogSeg.body
           at   == Last(FrameStarts(body))
           slot == oplogSeg[WinnerSlot(oplogSeg)]
       IN  /\ at + 1 + body[at].v[1] = Len(body)
           /\ hdr' = [hdr EXCEPT !.damage = "truncated", !.damage_at = faults,
                                 !.image = HeaderAt(slot.header, body, at),
                                 !.expect = HeaderBefore(slot.header, body, at)]
    /\ oplogSeg' = [oplogSeg EXCEPT !.body = SubSeq(@, 1, Len(@) - TailCut)]
    /\ UNCHANGED <<codec, storage, key_pair, tree, oplog, pc, inflight, outcome, dataSeg, treeSeg, calls,
                   blocks, faults, history>>

HeaderNext ==
    \/ \E batch \in HeaderBatches : AppendBatchCall(batch)
    \/ DataFlushOk
    \/ OplogFlushOk
    \/ Crash
    \/ \E kp \in KeyPairs : Open(kp)
    \/ FlushHeaderCall
    \/ FlushHeaderOk
    \/ CrashInHeaderFlush
    \/ \E S \in SUBSET SlotNames : CorruptSlots(S)
    \/ TruncateTail

HeaderSpec == HeaderInit /\ [][HeaderNext]_vars

\* ------------------------------------------------------------ compact encoding
\* A u64 is held as its 8 little-endian bytes, so that every width is in range.
Uint(n) == <<n % 256, (n \div 256) % 256, (n \div 65536) % 256, 0, 0, 0, 0, 0>>

\* The number held by a u64 that fits three bytes.
NatOf(u) == u[1] + 256 * u[2] + 65536 * u[3]

Pad(bytes) == bytes \o [i \in 1..(8 - Len(bytes)) |-> 0]

ZeroFrom(u, i) == \A j \in i..8 : u[j] = 0

\* encode of an unsigned integer: one byte up to 252, else a marker byte and the
\* 2, 4 or 8 little-endian bytes.
EncodeUint(u) ==
    IF ZeroFrom(u, 2) /\ u[1] <= 252 THEN <<u[1]>>
    ELSE IF ZeroFrom(u, 3) THEN <<253>> \o SubSeq(u, 1, 2)
    ELSE IF ZeroFrom(u, 5) THEN <<254>> \o SubSeq(u, 1, 4)
    ELSE <<255>> \o u

\* decode of an unsigned integer from offset at (0-based): the value and the new
\* State.start.
DecodeUint(buf, at) ==
    LET first == buf[at + 1]
        width == IF first <= 252 THEN 0
                 ELSE IF first = 253 THEN 2 ELSE IF first = 254 THEN 4 ELSE 8
    IN  [value |-> IF width = 0 THEN Pad(<<first>>) ELSE Pad(SubSeq(buf, at + 2, at + 1 + width)),
         next |-> at + 1 + width]

\* bytes: the length, then the payload.
EncodeBytes(bytes) == EncodeUint(Uint(Len(bytes))) \o bytes

DecodeBytes(buf, at) ==
    LET len == DecodeUint(buf, at)
    IN  [value |-> SubSeq(buf, len.next + 1, len.next + NatOf(len.value)),
         next |-> len.next + NatOf(len.value)]

\* fixed_32: the 32 raw bytes.
EncodeFixed32(bytes) == bytes

DecodeFixed32(buf, at) == [value |-> SubSeq(buf, at + 1, at + 32), next |-> at + 32]

\* ------------------------------------------------------------ wire messages
\* Node::new(index, hash, length)
NodeNew(index, hash, length) == [kind |-> "Node", index |-> index, hash |-> hash, length |-> length]

EncodeNode(value) ==
    EncodeUint(value.index) \o EncodeUint(value.length) \o EncodeFixed32(value.hash)

DecodeNode(buf, at) ==
    LET index  == DecodeUint(buf, at)
        length == DecodeUint(buf, index.next)
        hash   == DecodeFixed32(buf, length.next)
    IN  [value |-> NodeNew(index.value, hash.value, length.value), next |-> hash.next]

\* Vec<Node>: the number of nodes, then each node.
RECURSIVE EncodeEach(_)
EncodeEach(nodes) ==
    IF nodes = <<>> THEN <<>> ELSE EncodeNode(Head(nodes)) \o EncodeEach(Tail(nodes))

EncodeNodes(value) == EncodeUint(Uint(Len(value))) \o EncodeEach(value)

RECURSIVE DecodeEach(_, _, _)
DecodeEach(buf, at, n) ==
    IF n = 0 THEN [value |-> <<>>, next |-> at]
    ELSE LET node == DecodeNode(buf, at)
             rest == DecodeEach(buf, node.next, n - 1)
         IN  [value |-> <<node.value>> \o rest.value, next |-> rest.next]

DecodeNodes(buf, at) ==
    LET len == DecodeUint(buf, at)
    IN  DecodeEach(buf, len.next, NatOf(len.value))

EncodeRequestBlock(value) == EncodeUint(value.index) \o EncodeUint(value.nodes)

DecodeRequestBlock(buf, at) ==
    LET index == DecodeUint(buf, at)
        nodes == DecodeUint(buf, index.next)
    IN  [value |-> [kind |-> "RequestBlock", index |-> index.value, nodes |-> nodes.value],
         next |-> nodes.next]

EncodeRequestSeek(value) == EncodeUint(value.bytes)

DecodeRequestSeek(buf, at) ==
    LET bytes == DecodeUint(buf, at)
    IN  [value |-> [kind |-> "RequestSeek", bytes |-> bytes.value], next |-> bytes.next]

\* Variant of EncodeRequestUpgrade that writes length before start.
EncodeRequestUpgradeSwapped(value) == EncodeUint(value.length) \o EncodeUint(value.start)

EncodeRequestUpgrade(value) == EncodeUint(value.start) \o EncodeUint(value.length)

DecodeRequestUpgrade(buf, at) ==
    LET start  == DecodeUint(buf, at)
        length == DecodeUint(buf, start.next)
    IN  [value |-> [kind |-> "RequestUpgrade", start |-> start.value, length |-> length.value],
         next |-> length.next]

EncodeDataBlock(value) ==
    EncodeUint(value.index) \o EncodeBytes(value.value) \o EncodeNodes(value.nodes)

DecodeDataBlock(buf, at) ==
    LET index == DecodeUint(buf, at)
        value == DecodeBytes(buf, index.next)
        nodes == DecodeNodes(buf, value.next)
    IN  [value |-> [kind |-> "DataBlock", index |-> index.value, value |-> value.value,
                    nodes |-> nodes.value],
         next |-> nodes.next]

EncodeDataHash(value) == EncodeUint(value.index) \o EncodeNodes(value.nodes)

DecodeDataHash(buf, at) ==
    LET index == DecodeUint(buf, at)
        nodes == DecodeNodes(buf, index.next)
    IN  [value |-> [kind |-> "DataHash", index |-> index.value, nodes |-> nodes.value],
         next |-> nodes.next]

EncodeDataSeek(value) == EncodeUint(value.bytes) \o EncodeNodes(value.nodes)

DecodeDataSeek(buf, at) ==
    LET bytes == DecodeUint(buf, at)
        nodes == DecodeNodes(buf, bytes.next)
    IN  [value |-> [kind |-> "DataSeek", bytes |-> bytes.value, nodes |-> nodes.value],
         next |-> nodes.next]

EncodeDataUpgrade(value) ==
    EncodeUint(value.start) \o EncodeUint(value.length) \o EncodeNodes(value.nodes)
        \o EncodeNodes(value.additional_nodes) \o EncodeBytes(value.signature)

DecodeDataUpgrade(buf, at) ==
    LET start      == DecodeUint(buf, at)
        length     == DecodeUint(buf, start.next)
        nodes      == DecodeNodes(buf, length.next)
        additional == DecodeNodes(buf, nodes.next)
        signature  == DecodeBytes(buf, additional.next)
    IN  [value |-> [kind |-> "DataUpgrade", start |-> start.value, length |-> length.value,
                    nodes |-> nodes.value, additional_nodes |-> additional.value,
                    signature |-> signature.value],
         next |-> signature.next]

\* The CompactEncoding implementation chosen by the type of the value.
WireEncode(value) ==
    CASE value.kind = "Node" -> EncodeNode(value)
      [] value.kind = "RequestBlock" -> EncodeRequestBlock(value)
      [] value.kind = "RequestSeek" -> EncodeRequestSeek(value)
      [] value.kind = "RequestUpgrade" -> EncodeRequestUpgrade(value)
      [] value.kind = "DataBlock" -> EncodeDataBlock(value)
      [] value.kind = "DataHash" -> EncodeDataHash(value)
      [] value.kind = "DataSeek" -> EncodeDataSeek(value)
      [] value.kind = "DataUpgrade" -> EncodeDataUpgrade(value)

WireDecode(kind, buf, at) ==
    CASE kind = "Node" -> DecodeNode(buf, at)
      [] kind = "RequestBlock" -> DecodeRequestBlock(buf, at)
      [] kind = "RequestSeek" -> DecodeRequestSeek(buf, at)
      [] kind = "RequestUpgrade" -> DecodeRequestUpgrade(buf, at)
      [] kind = "DataBlock" -> DecodeDataBlock(buf, at)
      [] kind = "DataHash" -> DecodeDataHash(buf, at)
      [] kind = "DataSeek" -> DecodeDataSeek(buf, at)
      [] kind = "DataUpgrade" -> DecodeDataUpgrade(buf, at)

\* The values put on the wire.
MaxMessages == 2
MaxNodes == 2

UintValues == {Uint(0), Uint(253), Uint(65536), <<0, 0, 0, 0, 1, 0, 0, 0>>}

Nodes ==
    {NodeNew(Uint(2), [i \in 1..32 |-> 1], Uint(300)),
     NodeNew(<<255, 255, 255, 255, 255, 255, 255, 255>>, [i \in 1..32 |-> i], Uint(0))}

NodeArrays == SeqsUpTo(Nodes, MaxNodes)

SomeNodeArrays == {<<>>, <<NodeNew(Uint(2), [i \in 1..32 |-> 1], Uint(300))>>}

ByteStrings == {<<>>, <<5, 6>>}

WireValues ==
    Nodes
    \cup {[kind |-> "RequestBlock", index |-> i, nodes |-> Uint(252)] : i \in UintValues}
    \cup {[kind |-> "RequestSeek", bytes |-> b] : b \in {Uint(1), Uint(65535)}}
    \cup {[kind |-> "RequestUpgrade", start |-> i, length |-> Uint(7)] : i \in UintValues}
    \cup {[kind |-> "DataBlock", index |-> Uint(1), value |-> v, nodes |-> n] :
              v \in ByteStrings, n \in SomeNodeArrays}
    \cup {[kind |-> "DataHash", index |-> Uint(4), nodes |-> n] : n \in NodeArrays}
    \cup {[kind |-> "DataSeek", bytes |-> Uint(70000), nodes |-> n] : n \in SomeNodeArrays}
    \cup {[kind |-> "DataUpgrade", start |-> Uint(0), length |-> Uint(3), nodes |-> n,
           additional_nodes |-> a, signature |-> g] :
              n \in SomeNodeArrays, a \in SomeNodeArrays, g \in ByteStrings}

\* The variables of the log engine while no log is open.
CoreUnused ==
    /\ key_pair = [public |-> PublicKey, secret |-> SecretKey]
    /\ tree = EmptyTree
    /\ oplog = NoOplog
    /\ pc = "closed"
    /\ inflight = NoInflight
    /\ outcome = NoOutcome
    /\ dataSeg = <<>>
    /\ oplogSeg = [A |-> EmptySlot, B |-> EmptySlot, body |-> <<>>]
    /\ treeSeg = <<>>
    /\ calls = 0
    /\ blocks = 0
    /\ faults = 0
    /\ call = NoCall
    /\ commits = <<>>
    /\ acked = <<>>
    /\ log = <<>>
    /\ hdr = NoHdr

core == <<key_pair, tree, oplog, pc, inflight, outcome, dataSeg, oplogSeg, treeSeg,
          calls, blocks, faults, call, commits, acked, log, hdr>>

WireInit == CoreUnused /\ CodecUnused /\ StorageUnused

\* encode of one more value: its bytes are written at State.start, which moves
\* behind them.
WireEncodeValue(value) ==
    /\ Len(cvalue) < MaxMessages
    /\ cresult = <<>>
    /\ cstate.start = Len(cbuffer)
    /\ cvalue' = Append(cvalue, value)
    /\ cbuffer' = cbuffer \o WireEncode(value)
    /\ cstate' = [start |-> Len(cbuffer'), end |-> Len(cbuffer')]
    /\ UNCHANGED <<cresult, storage, core>>

\* State::from_buffer: a reader starts at offset 0 of the written buffer.
WireFromBuffer ==
    /\ cvalue # <<>>
    /\ cresult = <<>>
    /\ cstate.start = Len(cbuffer)
    /\ cstate' = [start |-> 0, end |-> Len(cbuffer)]
    /\ UNCHANGED <<cvalue, cbuffer, cresult, storage, core>>

\* decode of the next value, of the type the writer encoded.
WireDecodeValue ==
    /\ cstate.start < Len(cbuffer)
    /\ Len(cresult) < Len(cvalue)
    /\ LET d == WireDecode(cvalue[Len(cresult) + 1].kind, cbuffer, cstate.start)
       IN  /\ cresult' = Append(cresult, d.value)
           /\ cstate' = [cstate EXCEPT !.start = d.next]
    /\ UNCHANGED <<cvalue, cbuffer, storage, core>>

WireNext ==
    \/ \E value \in WireValues : WireEncodeValue(value)
    \/ WireFromBuffer
    \/ WireDecodeValue

WireSpec == WireInit /\ [][WireNext]_vars

\* ------------------------------------------------------------ header record
Strings == {"blake2b", "raw", "ed25519", "a", "b"}

\* The UTF-8 bytes of a string.
StrBytes(s) ==
    CASE s = "blake2b" -> <<98, 108, 97, 107, 101, 50, 98>>
      [] s = "raw"     -> <<114, 97, 119>>
      [] s = "ed25519" -> <<101, 100, 50, 53, 53, 49, 57>>
      [] s = "a"       -> <<97>>
      [] s = "b"       -> <<98>>

StrOf(bytes) == CHOOSE s \in Strings : StrBytes(s) = bytes

EncodeString(s) == EncodeBytes(StrBytes(s))

DecodeString(buf, at) ==
    LET d == DecodeBytes(buf, at) IN [value |-> StrOf(d.value), next |-> d.next]

RECURSIVE EncodeStrings(_)
EncodeStrings(ss) == IF ss = <<>> THEN <<>> ELSE EncodeString(Head(ss)) \o EncodeStrings(Tail(ss))

\* Vec<String>: the length, then the strings.
EncodeStringArray(ss) == EncodeUint(Uint(Len(ss))) \o EncodeStrings(ss)

RECURSIVE DecodeStrings(_, _, _)
DecodeStrings(buf, at, n) ==
    IF n = 0 THEN [value |-> <<>>, next |-> at]
    ELSE LET s    == DecodeString(buf, at)
             rest == DecodeStrings(buf, s.next, n - 1)
         IN  [value |-> <<s.value>> \o rest.value, next |-> rest.next]

DecodeStringArray(buf, at) ==
    LET len == DecodeUint(buf, at) IN DecodeStrings(buf, len.next, NatOf(len.value))

\* PublicKey::as_bytes and SecretKey::as_bytes: 32 bytes each.
KeyBytes(key) ==
    IF key = PublicKey THEN [i \in 1..32 |-> 7]
    ELSE IF key = SecretKey THEN [i \in 1..32 |-> 9]
    ELSE <<>>

\* PublicKey::from_bytes and SecretKey::from_bytes
KeyFromBytes(bytes) == CHOOSE key \in {PublicKey, SecretKey, NoKey} : KeyBytes(key) = bytes

EncodeHeaderTypes(value) ==
    EncodeString(value.tree) \o EncodeString(value.bitfield) \o EncodeString(value.signer)

DecodeHeaderTypes(buf, at) ==
    LET t == DecodeString(buf, at)
        b == DecodeString(buf, t.next)
        s == DecodeString(buf, b.next)
    IN  [value |-> [tree |-> t.value, bitfield |-> b.value, signer |-> s.value], next |-> s.next]

EncodeHeaderTree(value) == EncodeUint(Uint(value.fork)) \o EncodeUint(Uint(value.length))

DecodeHeaderTree(buf, at) ==
    LET fork   == DecodeUint(buf, at)
        length == DecodeUint(buf, fork.next)
    IN  [value |-> [fork |-> NatOf(fork.value), length |-> NatOf(length.value)],
         next |-> length.next]

\* The signer: the public key bytes, then the secret key bytes or a single 0.
EncodeHeaderSigner(value) ==
    EncodeBytes(KeyBytes(value.public_key))
        \o (IF value.secret_key # NoKey THEN EncodeBytes(KeyBytes(value.secret_key)) ELSE <<0>>)

\* An empty secret key decodes to None.
DecodeHeaderSigner(buf, at) ==
    LET public == DecodeBytes(buf, at)
        secret == DecodeBytes(buf, public.next)
    IN  [value |-> [public_key |-> KeyFromBytes(public.value),
                    secret_key |-> IF Len(secret.value) = 0 THEN NoKey
                                   ELSE KeyFromBytes(secret.value)],
         next |-> secret.next]

EncodeHeaderHints(value) == EncodeStringArray(value.reorgs)

DecodeHeaderHints(buf, at) ==
    LET reorgs == DecodeStringArray(buf, at)
    IN  [value |-> [reorgs |-> reorgs.value], next |-> reorgs.next]

\* The fields encode writes behind the version byte; user_data is not among them.
HeaderFields(value) ==
    EncodeHeaderTypes(value.types) \o EncodeHeaderTree(value.tree)
        \o EncodeHeaderSigner(value.signer) \o EncodeHeaderHints(value.hints)
        \o EncodeUint(Uint(value.contiguous_length))

\* preencode of a Header: the version byte is added to start, the fields to end.
PreencodeHeader(state, value) ==
    [start |-> state.start + 1, end |-> state.end + Len(HeaderFields(value))]

\* The buffer with the bytes written from offset at (0-based) on.
WriteBytes(buffer, at, bytes) ==
    [i \in 1..Len(buffer) |->
        IF i > at /\ i <= at + Len(bytes) THEN bytes[i - at] ELSE buffer[i]]

\* encode of a Header: the version goes to buffer[0], the fields go behind
\* start + 1. A write behind the end of the buffer panics.
EncodeHeader(state, value, buffer) ==
    LET fields == HeaderFields(value)
        from   == state.start + 1
    IN  IF from + Len(fields) > Len(buffer)
        THEN [panic |-> TRUE, state |-> state, buffer |-> buffer]
        ELSE [panic |-> FALSE,
              state |-> [state EXCEPT !.start = from + Len(fields)],
              buffer |-> WriteBytes(WriteBytes(buffer, 0, <<0>>), from, fields)]

\* decode of a Header; the struct has no user_data to fill.
DecodeHeader(buf, at) ==
    LET version == DecodeUint(buf, at)
        types   == DecodeHeaderTypes(buf, version.next)
        htree   == DecodeHeaderTree(buf, types.next)
        signer  == DecodeHeaderSigner(buf, htree.next)
        hints   == DecodeHeaderHints(buf, signer.next)
        contig  == DecodeUint(buf, hints.next)
    IN  IF NatOf(version.value) # 0 THEN [panic |-> TRUE, next |-> version.next]
        ELSE [panic |-> FALSE,
              value |-> [types |-> types.value, tree |-> htree.value, signer |-> signer.value,
                         hints |-> hints.value, contiguous_length |-> NatOf(contig.value)],
              next |-> contig.next]

\* ------------------------------------------------------------ header codec
\* A header to persist: the fields of the Header struct and the user data the
\* caller holds for it.
UserData == {<<>>, <<[name |-> "a", value |-> <<5, 6>>]>>}

HeaderValues ==
    {[kind |-> "Header",
      header |-> [new_from_keys(PublicKey, secret) EXCEPT
                      !.tree = [fork |-> fork, length |-> length],
                      !.hints = [reorgs |-> reorgs],
                      !.contiguous_length = contiguous],
      user_data |-> user_data] :
        secret \in {SecretKey, NoKey}, fork \in {0, 1}, length \in {0, 300},
        reorgs \in {<<>>, <<"a">>, <<"a", "b">>}, contiguous \in {0, 300},
        user_data \in UserData}

Panic == [kind |-> "panic"]

Allocated(buffer) == buffer # <<>> /\ \A i \in 1..Len(buffer) : buffer[i] = 0

\* The sizes a caller gives the buffer: the preencoded size, or one byte more.
BufferSlack == {0, 1}

HeaderCodecInit ==
    /\ CoreUnused
    /\ StorageUnused
    /\ cvalue \in {<<value>> : value \in HeaderValues}
    /\ cstate = NoState
    /\ cbuffer = <<>>
    /\ cresult = <<>>

\* State::new, then preencode of the header.
HeaderPreencode ==
    /\ cstate = NoState
    /\ cbuffer = <<>>
    /\ cstate' = PreencodeHeader(cstate, cvalue[1].header)
    /\ UNCHANGED <<cvalue, cbuffer, cresult, storage, core>>

\* The zeroed buffer for the encoding: create_buffer keeps the state of the
\* preencode, new_with_size starts a state at offset 0.
HeaderCreateBuffer(fresh, slack) ==
    /\ cstate # NoState
    /\ cbuffer = <<>>
    /\ cresult = <<>>
    /\ cbuffer' = [i \in 1..(cstate.end + slack) |-> 0]
    /\ cstate' = IF fresh THEN [start |-> 0, end |-> cstate.end + slack] ELSE cstate
    /\ UNCHANGED <<cvalue, cresult, storage, core>>

\* encode of the header into the allocated buffer.
HeaderEncode ==
    /\ Allocated(cbuffer)
    /\ cresult = <<>>
    /\ LET e == EncodeHeader(cstate, cvalue[1].header, cbuffer)
       IN  /\ cstate' = e.state
           /\ cbuffer' = e.buffer
           /\ cresult' = IF e.panic THEN <<Panic>> ELSE <<>>
    /\ UNCHANGED <<cvalue, storage, core>>

\* State::from_buffer on the encoded record.
HeaderFromBuffer ==
    /\ cbuffer # <<>>
    /\ ~Allocated(cbuffer)
    /\ cresult = <<>>
    /\ cstate.start = Len(cbuffer)
    /\ cstate' = [start |-> 0, end |-> Len(cbuffer)]
    /\ UNCHANGED <<cvalue, cbuffer, cresult, storage, core>>

\* decode of the header record.
HeaderDecode ==
    /\ cbuffer # <<>>
    /\ ~Allocated(cbuffer)
    /\ cresult = <<>>
    /\ cstate.start = 0
    /\ LET d == DecodeHeader(cbuffer, cstate.start)
       IN  /\ cstate' = [cstate EXCEPT !.start = d.next]
           /\ cresult' = IF d.panic THEN <<Panic>>
                         ELSE <<[kind |-> "Header", header |-> d.value, user_data |-> <<>>]>>
    /\ UNCHANGED <<cvalue, cbuffer, storage, core>>

HeaderCodecNext ==
    \/ HeaderPreencode
    \/ \E fresh \in BOOLEAN, slack \in BufferSlack : HeaderCreateBuffer(fresh, slack)
    \/ HeaderEncode
    \/ HeaderFromBuffer
    \/ HeaderDecode

HeaderCodecSpec == HeaderCodecInit /\ [][HeaderCodecNext]_vars

\* ------------------------------------------------------------ storage
HEADER_OFFSET == 32

MaxIndex == 2

\* create_tree and create_bitfield: the 32 header bytes of the two stores.
create_tree == <<5, 2, 87, 2>> \o [i \in 1..28 |-> 0]

create_bitfield == <<5, 2, 87, 1>> \o [i \in 1..28 |-> 0]

\* Node::to_bytes: the 32 hash bytes, then the 8 bytes of the length.
to_bytes(node) == node.hash \o node.length

\* Node::from_bytes(index, buf)
from_bytes(index, buf) == NodeNew(index, SubSeq(buf, 1, 32), SubSeq(buf, 33, 40))

\* RandomAccess::read: the bytes of the range, or an error behind the end.
ReadAt(seg, off, len) ==
    IF off + len > Len(seg) THEN [ok |-> FALSE, bytes |-> <<>>]
    ELSE [ok |-> TRUE, bytes |-> SubSeq(seg, off + 1, off + len)]

StoredNodes ==
    {NodeNew(Uint(index), [i \in 1..32 |-> n.fill], n.length) :
        index \in 0..MaxIndex,
        n \in {[fill |-> 1, length |-> Uint(1)], [fill |-> 2, length |-> Uint(300)]}}

\* The record range (1-based positions) of a flat index in the tree store.
RecordRange(index) == (HEADER_OFFSET + 40 * index + 1)..(HEADER_OFFSET + 40 * index + 40)

\* The segments the create callback opens: empty, or written by an earlier run.
StorageInit ==
    /\ CoreUnused
    /\ CodecUnused
    /\ \E t \in {<<>>, create_tree \o to_bytes(NodeNew(Uint(0), [i \in 1..32 |-> 3], Uint(4)))},
          b \in {<<>>, create_bitfield},
          o \in {<<>>, <<7, 7>>} :
          storage = [tree |-> t, bitfield |-> b, oplog |-> o, opened |-> FALSE,
                     overwrite |-> FALSE, written |-> <<>>, read |-> NoRead]

\* Storage::new: the initial bytes of the oplog, bitfield and tree stores.
Storage_new(overwrite) ==
    /\ ~storage.opened
    /\ LET oplog1    == IF overwrite \/ Len(storage.bitfield) = 0
                        THEN WriteAt(storage.oplog, 0, <<0>>, 0) ELSE storage.oplog
           bitfield1 == IF overwrite \/ Len(storage.bitfield) = 0
                        THEN WriteAt(storage.bitfield, 0, create_bitfield, 0)
                        ELSE storage.bitfield
           tree1     == IF overwrite \/ Len(storage.tree) = 0
                        THEN WriteAt(storage.tree, 0, create_tree, 0) ELSE storage.tree
       IN  storage' = [storage EXCEPT !.oplog = oplog1, !.bitfield = bitfield1,
                                      !.tree = tree1, !.opened = TRUE,
                                      !.overwrite = overwrite]
    /\ UNCHANGED <<codec, core>>

\* Variant of the put_node write that leaves HEADER_OFFSET out of the offset.
PutNodeAtStride(seg, node) == WriteAt(seg, 40 * NatOf(node.index), to_bytes(node), 0)

\* The write of put_node: the node's bytes at HEADER_OFFSET + 40 * index.
PutNodeAt(seg, node) == WriteAt(seg, HEADER_OFFSET + 40 * NatOf(node.index), to_bytes(node), 0)

\* Storage::put_node
Storage_put_node(node) ==
    /\ storage.opened
    /\ storage' = [storage EXCEPT
                       !.tree = PutNodeAt(storage.tree, node),
                       !.written = [i \in DOMAIN storage.written \cup {NatOf(node.index)} |->
                                       IF i = NatOf(node.index) THEN node ELSE storage.written[i]],
                       !.read = NoRead]
    /\ UNCHANGED <<codec, core>>

\* Storage::get_node
Storage_get_node(index) ==
    /\ storage.opened
    /\ LET buf == ReadAt(storage.tree, HEADER_OFFSET + 40 * index, 40)
       IN  storage' = [storage EXCEPT !.read =
                           IF buf.ok
                           THEN [ok |-> TRUE, index |-> index,
                                 node |-> from_bytes(Uint(index), buf.bytes)]
                           ELSE NoRead]
    /\ UNCHANGED <<codec, core>>

\* The instance is dropped; the segments stay.
StorageDrop ==
    /\ storage.opened
    /\ storage' = [storage EXCEPT !.opened = FALSE, !.written = <<>>, !.read = NoRead]
    /\ UNCHANGED <<codec, core>>

StorageNext ==
    \/ \E overwrite \in BOOLEAN : Storage_new(overwrite)
    \/ \E node \in StoredNodes : Storage_put_node(node)
    \/ \E index \in 0..MaxIndex : Storage_get_node(index)
    \/ StorageDrop

StorageSpec == StorageInit /\ [][StorageNext]_vars

\* ------------------------------------------------------------ properties

\* The end of the byte range the state after the given entries covers: the summed
\* lengths of its roots, each taken from the newest entry that carries it, else
\* from the tree segment.
RECURSIVE NodeOf(_, _, _)
NodeOf(tseg, entries, index) ==
    IF entries = <<>> THEN get_node(tseg, index)
    ELSE LET last == entries[Len(entries)]
         IN  IF find_node(last.nodes, index).ok THEN find_node(last.nodes, index)
             ELSE NodeOf(tseg, SubSeq(entries, 1, Len(entries) - 1), index)

ReferencedEnd(tseg, entries) ==
    LET idx == FullRoots(2 * entries[Len(entries)].length)
    IN  SumLengths([i \in 1..Len(idx) |-> NodeOf(tseg, entries, idx[i]).node])

\* The part of a tree state that open can rebuild from the header tree and the roots.
TreeCore(t) ==
    [fork |-> t.fork, length |-> t.length, byte_length |-> t.byte_length, roots |-> t.roots]

\* C1: every tree upgrade found in the oplog on disk references only bytes that the
\* data segment already holds, and while the oplog entry of an append is being
\* written the bytes of its batch are already in the data segment at its offset.
C1_DataBeforeOplog ==
    /\ \A j \in 1..Len(DiskEntries) :
           ReferencedEnd(treeSeg, SubSeq(DiskEntries, 1, j)) <= Len(dataSeg)
    /\ pc = "oplog_flush" =>
           /\ call.tree.byte_length + Len(Concat(call.batch)) <= Len(dataSeg)
           /\ SubSeq(dataSeg, call.tree.byte_length + 1,
                     call.tree.byte_length + Len(Concat(call.batch))) = Concat(call.batch)

\* An entry that references bytes is on disk, found by replay.
C1_Witness ==
    /\ Len(DiskEntries) >= 1
    /\ ReferencedEnd(treeSeg, DiskEntries) >= 2

\* C2: opening the surviving storage after a crash yields one of the states
\* committed so far (the initial state or the state of a changeset handed to the
\* oplog), never an error or another state.
C2_ReplayLaw ==
    pc = "closed" =>
        LET o == OpenOutcome(key_pair, oplogSeg, treeSeg)
        IN  /\ o.ok
            /\ \/ TreeCore(o.tree) = TreeCore(EmptyTree)
               \/ \E i \in 1..Len(commits) : TreeCore(o.tree) = TreeCore(commits[i])

\* C3: after an append_batch has returned Ok, every open of the surviving storage
\* yields a state at least as long as the state that call committed.
C3_AckedDurable ==
    (pc = "closed" /\ acked # <<>>) =>
        LET o == OpenOutcome(key_pair, oplogSeg, treeSeg)
        IN  /\ o.ok
            /\ \A i \in 1..Len(acked) : o.tree.length >= acked[i].length

\* C4: the outcome of a successful append_batch reports the number of blocks and of
\* payload bytes appended so far.
C4_OutcomeCounts ==
    outcome.kind = "ok" =>
        /\ outcome.length = Len(log)
        /\ outcome.byte_length = Len(Concat(log))

\* C5: when append_batch has returned Ok the in-memory tree is the changeset's
\* result: length and byte_length grown by the batch.
C5_TreeReplaced ==
    (pc = "idle" /\ outcome.kind = "ok") =>
        /\ tree.length = call.tree.length + Len(call.batch)
        /\ tree.byte_length = call.tree.byte_length + Len(Concat(call.batch))
        /\ TreeCore(tree) = TreeCore(acked[Len(acked)])

\* C6: the in-memory tree is the one of the start of the call at every suspension
\* point of append_batch up to the end of the oplog flush, and after a call that a
\* backend error ended.
C6_TreeUntouchedBeforeOplogFlush ==
    /\ pc \in {"data_flush", "oplog_flush"} => tree = call.tree
    /\ (pc = "idle" /\ outcome.kind = "BackendIo") => tree = call.tree

\* An append of blocks failed while its oplog entry was being written.
C6_Witness ==
    /\ pc = "idle"
    /\ outcome.kind = "BackendIo"
    /\ call.batch # <<>>
    /\ oplogSeg.body # call.body

\* C7: the data slice of an append starts at the byte length of the blocks committed
\* before it, so it never overlaps the bytes of a committed block.
C7_CommittedBytesImmutable ==
    pc = "data_flush" => inflight.slice.offset = Len(Concat(log))

\* C8: reading a committed block returns the payload appended at its index.
C8_GetReturnsBlock ==
    pc = "idle" =>
        \A i \in 0..(Len(log) - 1) :
            /\ get_data(treeSeg, dataSeg, i).ok
            /\ get_data(treeSeg, dataSeg, i).data = log[i + 1]

\* C9: append_batch without a secret key returns NoSecret and changes neither the
\* segments nor the in-memory tree and oplog.
C9_NoSecret ==
    [][(pc = "idle" /\ key_pair.secret = NoKey /\ calls' = calls + 1) =>
          /\ outcome'.kind = "NoSecret"
          /\ pc' = "idle"
          /\ UNCHANGED <<dataSeg, oplogSeg, treeSeg, tree, oplog, key_pair>>]_vars

\* A reader without the secret key was refused an append of blocks on a log whose
\* data segment holds bytes.
C9_Witness ==
    /\ outcome.kind = "NoSecret"
    /\ call.batch # <<>>
    /\ dataSeg # <<>>

\* C10: append_batch with an empty batch writes nothing, leaves the tree unchanged
\* and returns the current length and byte_length.
C10_EmptyBatchNoop ==
    (pc = "idle" /\ outcome.kind = "ok" /\ call.batch = <<>>) =>
        /\ dataSeg = call.dataSeg
        /\ oplogSeg.body = call.body
        /\ tree = call.tree
        /\ outcome.length = tree.length
        /\ outcome.byte_length = tree.byte_length

\* C11: after successful appends only, re-opening the storage with the same key
\* pair yields the tree state committed last: fork, length, byte_length, roots and
\* signature.
C11_RoundTrip ==
    (pc = "closed" /\ acked # <<>> /\ commits = acked) =>
        LET o == OpenOutcome(key_pair, oplogSeg, treeSeg)
        IN  /\ o.ok
            /\ o.tree = acked[Len(acked)]

\* The flat indices of a sequence of nodes.
Indices(nodes) == [i \in 1..Len(nodes) |-> nodes[i].index]

\* C12: the state committed by a successful append has the length of all blocks
\* appended so far, its roots are the canonical root cover of that length, and its
\* byte_length is the sum of the roots' lengths and of the payload bytes.
C12_RootCover ==
    (pc = "idle" /\ outcome.kind = "ok") =>
        LET s == acked[Len(acked)]
        IN  /\ s.length = Len(log)
            /\ Indices(s.roots) = RootCover(0, Len(log))
            /\ s.byte_length = SumLengths(s.roots)
            /\ s.byte_length = Len(Concat(log))

\* The roots of the state after the given replayed entries.
RootsAfter(tseg, entries) ==
    LET idx == FullRoots(2 * entries[Len(entries)].length)
    IN  [i \in 1..Len(idx) |-> NodeOf(tseg, entries, idx[i]).node]

\* The public key stored in the winning header slot.
StoredPublicKey ==
    IF WinnerSlot(oplogSeg) = "B" THEN oplogSeg.B.header.signer.public_key
    ELSE oplogSeg.A.header.signer.public_key

C14_OneStatePerLength ==
    \A i, j \in 1..Len(commits) :
        (commits[i].fork = commits[j].fork /\ commits[i].length = commits[j].length)
            => commits[i].roots = commits[j].roots

\* The header image Oplog::open returns for what is on disk.
OpenedHeader == OplogOpen(key_pair, oplogSeg).header

\* C15: while no slot is damaged, the slot that wins on open is valid, has the
\* highest sequence of the valid slots and is the slot written last; a completed
\* rewrite has targeted the slot that was the loser when it began; the sequence
\* numbers of two valid slots differ in parity.
C15_SlotSelection ==
    hdr.damage = "none" =>
        /\ WinnerSlot(oplogSeg) # "none" =>
               /\ oplogSeg[WinnerSlot(oplogSeg)].valid
               /\ \A n \in SlotNames :
                      oplogSeg[n].valid =>
                          oplogSeg[n].sequence <= oplogSeg[WinnerSlot(oplogSeg)].sequence
               /\ WinnerSlot(oplogSeg) = hdr.last
        /\ (oplogSeg.A.valid /\ oplogSeg.B.valid) =>
               oplogSeg.A.sequence % 2 # oplogSeg.B.sequence % 2
        /\ (hdr.phase = "none" /\ hdr.rewrites > 0) => hdr.last # hdr.winner

\* Three rewrites have completed: slot A holds sequence 2, slot B sequence 3.
C15_Witness ==
    /\ hdr.damage = "none"
    /\ hdr.phase = "none"
    /\ hdr.rewrites >= 3
    /\ oplogSeg.A.valid
    /\ oplogSeg.A.sequence = 2
    /\ WinnerSlot(oplogSeg) = "B"

\* C16 as stated: the write of an empty slot gives it sequence 0, the rewrite of a
\* valid slot raises its sequence by exactly 2, and two valid slots are 1 apart.
C16_SlotStateMachine ==
    hdr.damage = "none" =>
        /\ hdr.prev = EmptySlot => oplogSeg[hdr.last].sequence = 0
        /\ hdr.prev.valid => oplogSeg[hdr.last].sequence = hdr.prev.sequence + 2
        /\ (oplogSeg.A.valid /\ oplogSeg.B.valid) =>
               \/ oplogSeg.A.sequence = oplogSeg.B.sequence + 1
               \/ oplogSeg.B.sequence = oplogSeg.A.sequence + 1

\* C16 amended: the initial write gives slot A sequence 0; the first write of slot B
\* gives it sequence 1; the rewrite of a valid slot raises its sequence by exactly
\* 2; every completed rewrite gives its slot the sequence of the slot that won
\* before it plus 1; two valid slots are 1 apart, so they never hold the same
\* sequence.
C16_SlotSequences ==
    hdr.damage = "none" =>
        /\ (hdr.prev = EmptySlot /\ hdr.last = "A") => oplogSeg.A.sequence = 0
        /\ (hdr.prev = EmptySlot /\ hdr.last = "B") => oplogSeg.B.sequence = 1
        /\ hdr.prev.valid => oplogSeg[hdr.last].sequence = hdr.prev.sequence + 2
        /\ (hdr.phase = "none" /\ hdr.rewrites > 0) =>
               oplogSeg[hdr.last].sequence = hdr.kept.sequence + 1
        /\ (oplogSeg.A.valid /\ oplogSeg.B.valid) =>
               \/ oplogSeg.A.sequence = oplogSeg.B.sequence + 1
               \/ oplogSeg.B.sequence = oplogSeg.A.sequence + 1

\* Slot A has been rewritten from sequence 0 to sequence 2.
C16_Witness ==
    /\ hdr.damage = "none"
    /\ hdr.last = "A"
    /\ hdr.prev.valid
    /\ hdr.prev.sequence = 0
    /\ oplogSeg.A.sequence = 2
    /\ oplogSeg.B.valid

\* C17: during a header rewrite and after a crash in it, the slot that was the
\* winner when the rewrite began is unchanged and verifies, and open returns the
\* header state held when the rewrite began.
C17_RewriteCrashLosesNothing ==
    (/\ hdr.damage = "none"
     /\ \/ pc = "header_flush" /\ hdr.phase = "rewriting"
        \/ pc = "closed" /\ hdr.phase = "crashed" /\ hdr.at = faults) =>
        /\ oplogSeg[hdr.winner] = hdr.kept
        /\ hdr.kept.valid
        /\ OpenedHeader = hdr.image

\* A rewrite that carried a state of length above 0 was torn by a crash.
C17_Witness ==
    /\ hdr.damage = "none"
    /\ pc = "closed"
    /\ hdr.phase = "crashed"
    /\ hdr.at = faults
    /\ Corrupt(oplogSeg[LoserOf(oplogSeg)])
    /\ hdr.image.tree.length > 0

\* C18 as stated: after the oplog lost its last TailCut cells, open returns the
\* state of the entries before the torn one, and when 2 blocks were committed
\* before the cut it returns the 2-block state.
C18_TornTail ==
    (pc = "closed" /\ hdr.damage = "truncated" /\ hdr.damage_at = faults) =>
        /\ OpenedHeader = hdr.expect
        /\ hdr.image.tree.length = 2 => OpenedHeader.tree.length = 2

\* C18 amended: after the oplog lost its last TailCut cells, open returns the
\* state of the entries before the torn one; when the torn entry was the only
\* one, that is the state of the winning header slot.
C18_TornTailDropsLastEntry ==
    (pc = "closed" /\ hdr.damage = "truncated" /\ hdr.damage_at = faults) =>
        /\ OpenedHeader = hdr.expect
        /\ DiskEntries = <<>> => OpenedHeader = oplogSeg[WinnerSlot(oplogSeg)].header

\* The entry of a 2-block commit was torn and an earlier entry is replayed.
C18_Witness ==
    /\ pc = "closed"
    /\ hdr.damage = "truncated"
    /\ hdr.damage_at = faults
    /\ hdr.image.tree.length = 2
    /\ Len(DiskEntries) >= 1
    /\ OpenedHeader.tree.length = 1

\* The fresh header of a key pair, field by field.
FreshHeader(kp) ==
    [types |-> [tree |-> "blake2b", bitfield |-> "raw", signer |-> "ed25519"],
     tree |-> [fork |-> 0, length |-> 0],
     signer |-> [public_key |-> kp.public, secret_key |-> kp.secret],
     hints |-> [reorgs |-> <<>>],
     contiguous_length |-> 0]

\* C19: an open of an oplog with no valid header slot (never written, or both
\* failing the CRC) succeeds: the log is ready with the fresh header of the
\* supplied key pair, and slot A holds that header with sequence 0.
C19_FreshHeader ==
    [][(pc = "closed" /\ WinnerSlot(oplogSeg) = "none" /\ hdr' = hdr) =>
           /\ pc' = "idle"
           /\ outcome'.kind = "none"
           /\ oplog' = [header |-> FreshHeader(key_pair'), entries_length |-> 0]
           /\ oplogSeg'.A = [valid |-> TRUE, sequence |-> 0, header |-> FreshHeader(key_pair')]
           /\ oplogSeg'.B = oplogSeg.B
           /\ tree'.length = 0]_vars

\* A log was opened after both of its written header slots stopped verifying.
C19_Witness ==
    /\ hdr.damage = "headers_lost"
    /\ pc = "idle"
    /\ oplogSeg.A = HeaderSlot(0, FreshHeader(key_pair))
    /\ Corrupt(oplogSeg.B)

\* C20: an open with both header slots corrupt fails with CorruptHeader; an open
\* with one slot corrupt and the other valid returns the valid slot's state.
C20_CorruptHeaders ==
    [][(pc = "closed" /\ hdr' = hdr) =>
           /\ (Corrupt(oplogSeg.A) /\ Corrupt(oplogSeg.B)) =>
                  (pc' = "closed" /\ outcome'.kind = "CorruptHeader")
           /\ \A n \in SlotNames :
                  (Corrupt(oplogSeg[n]) /\ WinnerSlot(oplogSeg) # "none") =>
                      OpenedHeader = ApplyEntries(oplogSeg[WinnerSlot(oplogSeg)].header,
                                                  DiskEntries)]_vars

\* C24: the entry an append hands to the oplog has the number of blocks committed
\* before the batch as ancestors and ancestors plus the number of blocks of the
\* batch as length; the entries replayed from the oplog chain: every entry after
\* the first has the length of the entry before it as ancestors.
C24_EntriesChain ==
    /\ pc = "oplog_flush" =>
           LET e == EntryOf(inflight.changeset)
           IN  /\ e.ancestors = Len(log)
               /\ e.length = e.ancestors + Len(inflight.batch)
    /\ \A j \in 2..Len(DiskEntries) : DiskEntries[j].ancestors = DiskEntries[j - 1].length

\* The number of leading bytes of the data segment that the entries on disk refer to.
CommittedBytes ==
    IF DiskEntries = <<>> THEN 0 ELSE ReferencedEnd(treeSeg, DiskEntries)

\* C25: when the data flush of an append fails, the call returns the backend error,
\* the oplog segment, the in-memory tree and the in-memory oplog are unchanged, and
\* so are the bytes of the data segment that the committed entries refer to.
C25_DataFlushError ==
    [][(pc = "data_flush" /\ outcome'.kind = "BackendIo") =>
           /\ pc' = "idle"
           /\ oplogSeg' = oplogSeg
           /\ tree' = tree
           /\ oplog' = oplog
           /\ \A i \in 1..CommittedBytes : (i <= Len(dataSeg) => dataSeg'[i] = dataSeg[i])]_vars

\* The fields of a value in the order the specification lists them, each encoded
\* as its type says.
SpecLayout(value) ==
    CASE value.kind = "Node" ->
             EncodeUint(value.index) \o EncodeFixed32(value.hash) \o EncodeUint(value.length)
      [] value.kind = "RequestBlock" -> EncodeUint(value.index) \o EncodeUint(value.nodes)
      [] value.kind = "RequestSeek" -> EncodeUint(value.bytes)
      [] value.kind = "RequestUpgrade" -> EncodeUint(value.start) \o EncodeUint(value.length)
      [] value.kind = "DataBlock" ->
             EncodeUint(value.index) \o EncodeBytes(value.value) \o EncodeNodes(value.nodes)
      [] value.kind = "DataHash" -> EncodeUint(value.index) \o EncodeNodes(value.nodes)
      [] value.kind = "DataSeek" -> EncodeUint(value.bytes) \o EncodeNodes(value.nodes)
      [] value.kind = "DataUpgrade" ->
             EncodeUint(value.start) \o EncodeUint(value.length) \o EncodeNodes(value.nodes)
                 \o EncodeNodes(value.additional_nodes) \o EncodeBytes(value.signature)

\* The layout with a Node written as index, length, hash.
WireLayout(value) ==
    IF value.kind = "Node"
    THEN EncodeUint(value.index) \o EncodeUint(value.length) \o EncodeFixed32(value.hash)
    ELSE SpecLayout(value)

\* Every value decoded so far equals the value encoded at its place, and once as
\* many values are decoded as were encoded the reader stands at the end.
WireRoundTrip ==
    /\ \A i \in 1..Len(cresult) : cresult[i] = cvalue[i]
    /\ (cresult # <<>> /\ Len(cresult) = Len(cvalue)) => cstate.start = Len(cbuffer)

\* C21 as stated: decode returns the encoded values and consumes exactly their
\* bytes, and the buffer holds the fields of every value, a Node included, in the
\* order the specification lists them.
C21_WireRoundTrip ==
    /\ WireRoundTrip
    /\ cbuffer = Concat([i \in 1..Len(cvalue) |-> SpecLayout(cvalue[i])])

\* C21 amended: decode returns the encoded values and consumes exactly their bytes;
\* the buffer holds the fields of every message in the order the specification
\* lists them, and a Node as index, length, hash.
C21_WireRoundTripNodeOrder ==
    /\ WireRoundTrip
    /\ cbuffer = Concat([i \in 1..Len(cvalue) |-> WireLayout(cvalue[i])])

\* A DataUpgrade with nodes and a signature was decoded after another value from
\* the same buffer.
C21_Witness ==
    /\ Len(cresult) = 2
    /\ cresult[2].kind = "DataUpgrade"
    /\ cresult[2].nodes # <<>>
    /\ cresult[2].signature # <<>>
    /\ cresult[1].kind = "DataHash"
    /\ Len(cresult[1].nodes) = 2

\* C22: decoding an encoded header record returns a header equal in every field,
\* with or without a secret key, user_data and hints.reorgs included.
C22_HeaderRoundTrip ==
    (cresult # <<>> /\ cresult[1].kind = "Header") => cresult[1] = cvalue[1]

\* C26: the size preencode computes for a header is the number of bytes encode
\* writes, the version byte included, so that encode into a buffer of that size
\* neither panics nor leaves a byte unwritten.
C26_PreencodedSize ==
    LET value == cvalue[1].header
        size  == 1 + Len(HeaderFields(value))
    IN  /\ (cstate # NoState /\ cbuffer = <<>>) => cstate.end = size
        /\ (cresult # <<>> /\ Len(cbuffer) = PreencodeHeader(NoState, value).end)
               => cresult[1] # Panic
        /\ (cbuffer # <<>> /\ ~Allocated(cbuffer) /\ cresult = <<>> /\ cstate.start # 0)
               => cstate.start = Len(cbuffer)

\* C23: node records lie at byte offset 32 + 40 * index: get_node returns the node
\* last written at its index, a put_node changes no byte outside the record of the
\* node's index, and so none of the first 32 bytes of the tree store.
C23_NodeRecords ==
    /\ [](storage.read.ok /\ storage.read.index \in DOMAIN storage.written
            => storage.read.node = storage.written[storage.read.index])
    /\ [][(storage.opened /\ storage'.opened /\ storage'.tree # storage.tree)
            => \E index \in 0..MaxIndex :
                  /\ index \in DOMAIN storage'.written
                  /\ \A k \in 1..Len(storage.tree) :
                        k \notin RecordRange(index) => storage'.tree[k] = storage.tree[k]
                  /\ \A k \in 1..HEADER_OFFSET :
                        k <= Len(storage.tree) => storage'.tree[k] = storage.tree[k]]_vars

\* get_node read back a node at index 1 after the nodes at indices 0 and 2 were
\* written too.
C23_Witness ==
    /\ storage.read.ok
    /\ storage.read.index = 1
    /\ DOMAIN storage.written = {0, 1, 2}
    /\ storage.read.node = storage.written[1]
    /\ storage.written[1].length = Uint(300)

\* C27: Storage::new with overwrite = false writes the initial bytes of a store
\* only if that store is empty, and changes no store that holds data, whatever the
\* other stores hold.
C27_NewKeepsData ==
    [][(~storage.opened /\ storage'.opened /\ ~storage'.overwrite)
          => /\ (storage.tree # <<>> => storage'.tree = storage.tree)
             /\ (storage.bitfield # <<>> => storage'.bitfield = storage.bitfield)
             /\ (storage.oplog # <<>> => storage'.oplog = storage.oplog)]_vars

====
